---------------------------- MODULE Spec2Model ----------------------------
(***************************************************************************)
(* Model of code_reviewer.py: a linear pipeline that looks up the newest   *)
(* open pull request, fetches its diff, asks Gemini for a review and posts *)
(* the review as a comment.                                                *)
(*                                                                         *)
(* The environment (GitHub, Gemini, the process environment variables) is  *)
(* the only source of nondeterminism: each action draws the outcome of the *)
(* external call it makes from a bounded set.  Besides main, each of the   *)
(* four step functions can be entered directly with arbitrary arguments    *)
(* (they are public module-level functions).                               *)
(*                                                                         *)
(* Text (diffs, reviews, prompts, comment bodies, HTTP text bodies) is a   *)
(* sequence of tokens.  Python's None is the record None; a present value  *)
(* v is Some(v).                                                           *)
(***************************************************************************)
EXTENDS Integers, Sequences, FiniteSets, TLC

VARIABLES pc, entry, cfg, pr_number, pr_diff, review,
          genai_api_key, calls, console, last

vars == <<pc, entry, cfg, pr_number, pr_diff, review,
          genai_api_key, calls, console, last>>

----------------------------------------------------------------------------
(* Bounds *)

MaxLen == 2

MaxPrNumber == 2

MaxPrs == 2

----------------------------------------------------------------------------
(* Python values *)

None == [some |-> FALSE]

Some(v) == [some |-> TRUE, v |-> v]

\* truthiness of an Optional[str] held as a token sequence: None and "" are falsy
PyTruthyText(o) == o.some /\ Len(o.v) > 0

\* truthiness of an Optional[int]: None and 0 are falsy
PyTruthyInt(o) == o.some /\ o.v # 0

\* truthiness of an os.getenv result: None and "" are falsy
PyTruthyEnv(o) == o.some /\ o.v # ""

\* f"{x}" of an os.getenv result
FmtEnv(o) == IF o.some THEN o.v ELSE "None"

Chars == {"+", "-"}

Texts == UNION {[1..n -> Chars] : n \in 0..MaxLen}

PRNumbers == 0..MaxPrNumber

\* s occurs in t as a contiguous substring (Python's s in t)
Contains(t, s) ==
    \E i \in 0..(Len(t) - Len(s)) :
        \A j \in 1..Len(s) : t[i + j] = s[j]

\* one console line
P(msg, val) == [msg |-> msg, val |-> val]

Result(ret, exc, out, issued) ==
    [ret |-> ret, exc |-> exc, out |-> out, calls |-> issued]

----------------------------------------------------------------------------
(* The HTTP layer (requests) *)

Statuses == {200, 201, 304, 403, 404, 500}

\* decoded JSON documents, as far as the code distinguishes them
NotJson == [t |-> "invalid", items |-> <<>>, keys |-> {}]

JNull == [t |-> "null", items |-> <<>>, keys |-> {}]

JObject(keys) == [t |-> "object", items |-> <<>>, keys |-> keys]

JArray(items) == [t |-> "array", items |-> items, keys |-> {}]

\* an element of the pull-request list: a JSON object with or without "number"
PrObjects == {[hasNumber |-> TRUE, number |-> n] : n \in PRNumbers}
                \cup {[hasNumber |-> FALSE, number |-> 0]}

PrLists == UNION {[1..n -> PrObjects] : n \in 0..MaxPrs}

NetErr(body) == [kind |-> "neterr", status |-> 0, body |-> body]

Http(status, body) == [kind |-> "http", status |-> status, body |-> body]

LookupBodies == {NotJson, JNull, JObject({}), JObject({"message"})}
                    \cup {JArray(l) : l \in PrLists}

LookupResponses == {NetErr(NotJson)}
                      \cup {Http(s, b) : s \in Statuses, b \in LookupBodies}

DiffResponses == {NetErr(<<>>)} \cup {Http(s, b) : s \in Statuses, b \in Texts}

PostBodies == {NotJson, JNull, JObject({}), JObject({"html_url"}), JArray(<<>>)}

PostResponses == {NetErr(NotJson)}
                    \cup {Http(s, b) : s \in Statuses, b \in PostBodies}

\* Response.raise_for_status(): HTTPError exactly for 4xx and 5xx
raise_for_status(resp) == resp.status >= 400 /\ resp.status < 600

\* Python truthiness of a decoded JSON document
PyTruthyJson(j) ==
    \/ j.t = "array" /\ Len(j.items) > 0
    \/ j.t = "object" /\ j.keys # {}


\* Response.json(): JSONDecodeError (a RequestException) for a body that is not JSON
json_raises(resp) == resp.body.t = "invalid"

\* the Accept / Authorization / X-GitHub-Api-Version headers and URL of a request
GithubCall(method, endpoint, accept, owner, repo, number, token, body) ==
    [api |-> endpoint, method |-> method, accept |-> accept,
     owner |-> owner, repo |-> repo, number |-> number,
     auth |-> <<"Bearer", token>>, body |-> body]

\* the lines an except requests.exceptions.RequestException as e block prints:
\* status code and body when e.response is set, the exception message otherwise
RequestExceptionOut_NoBody(headline, has_response, resp) ==
    <<P(headline, "")>> \o
        (IF has_response
            THEN <<P("status", resp.status)>>
            ELSE <<P("errmsg", "")>>)

RequestExceptionOut(headline, has_response, resp) ==
    <<P(headline, "")>> \o
        (IF has_response
            THEN <<P("status", resp.status), P("body", resp.body)>>
            ELSE <<P("errmsg", "")>>)

----------------------------------------------------------------------------
(* get_latest_pr_number *)

ListPrsCall(owner, repo, token) ==
    GithubCall("GET", "list_prs", "application/vnd.github.v3+json",
               owner, repo, None, token, None)

\* pull_requests[0]['number']
FirstPrNumber_Last(pull_requests) ==
    pull_requests.items[Len(pull_requests.items)].number

FirstPrNumber(pull_requests) == pull_requests.items[1].number

\* the exception pull_requests[0]['number'] raises, "none" if it raises nothing:
\* a JSON object has no key 0, a list element may lack "number"
FirstPrNumberRaises(pull_requests) ==
    IF pull_requests.t # "array" THEN "KeyError"
    ELSE IF ~pull_requests.items[1].hasNumber THEN "KeyError"
    ELSE "none"

get_latest_pr_number(owner, repo, token, resp) ==
    LET issued == <<ListPrsCall(owner, repo, token)>>
        hello == <<P("lookup_start", "")>>
    IN  IF resp.kind = "neterr"
        THEN Result(None, "none",
                    hello \o RequestExceptionOut("lookup_failed", FALSE, resp),
                    issued)
        ELSE IF raise_for_status(resp)
        THEN Result(None, "none",
                    hello \o RequestExceptionOut("lookup_failed", TRUE, resp),
                    issued)
        ELSE IF json_raises(resp)
        THEN Result(None, "none",
                    hello \o RequestExceptionOut("lookup_failed", FALSE, resp),
                    issued)
        ELSE IF ~PyTruthyJson(resp.body)
        THEN Result(None, "none", hello \o <<P("no_open_pr", "")>>, issued)
        ELSE IF FirstPrNumberRaises(resp.body) # "none"
        THEN Result(None, FirstPrNumberRaises(resp.body), hello, issued)
        ELSE Result(Some(FirstPrNumber(resp.body)), "none",
                    hello \o <<P("found_pr", FirstPrNumber(resp.body))>>,
                    issued)

----------------------------------------------------------------------------
(* get_pr_diff *)

PrDiffCall(owner, repo, pr_number_, token) ==
    GithubCall("GET", "get_diff", "application/vnd.github.v3.diff",
               owner, repo, pr_number_, token, None)

get_pr_diff(owner, repo, pr_number_, token, resp) ==
    LET issued == <<PrDiffCall(owner, repo, pr_number_, token)>>
        hello == <<P("fetch_start", pr_number_)>>
    IN  IF resp.kind = "neterr"
        THEN Result(None, "none",
                    hello \o RequestExceptionOut("fetch_failed", FALSE, resp),
                    issued)
        ELSE IF raise_for_status(resp)
        THEN Result(None, "none",
                    hello \o RequestExceptionOut("fetch_failed", TRUE, resp),
                    issued)
        ELSE Result(Some(resp.body), "none",
                    hello \o <<P("fetch_ok", "")>>, issued)

----------------------------------------------------------------------------
(* post_review_to_github *)

IssueCommentCall_Swapped(owner, repo, pr_number_, token, comment) ==
    GithubCall("POST", "post_comment", "application/vnd.github.v3+json",
               repo, owner, pr_number_, token, Some(comment))

IssueCommentCall(owner, repo, pr_number_, token, comment) ==
    GithubCall("POST", "post_comment", "application/vnd.github.v3+json",
               owner, repo, pr_number_, token, Some(comment))

\* the exception response.json().get('html_url') raises once the JSON is decoded
HtmlUrlRaises(doc) ==
    IF doc.t = "object" THEN "none" ELSE "AttributeError"

post_review_to_github(owner, repo, pr_number_, token, comment, resp) ==
    LET issued == <<IssueCommentCall(owner, repo, pr_number_, token, comment)>>
        hello == <<P("post_start", pr_number_)>>
    IN  IF resp.kind = "neterr"
        THEN Result(None, "none",
                    hello \o RequestExceptionOut("post_failed", FALSE, resp),
                    issued)
        ELSE IF raise_for_status(resp)
        THEN Result(None, "none",
                    hello \o RequestExceptionOut("post_failed", TRUE, resp)
                          \o (IF resp.status = 403
                                 THEN <<P("hint_write_scope", "")>>
                                 ELSE <<>>),
                    issued)
        ELSE IF json_raises(resp)
        THEN Result(None, "none",
                    hello \o <<P("post_ok", pr_number_)>>
                          \o RequestExceptionOut("post_failed", FALSE, resp),
                    issued)
        ELSE IF HtmlUrlRaises(resp.body) # "none"
        THEN Result(None, HtmlUrlRaises(resp.body),
                    hello \o <<P("post_ok", pr_number_)>>, issued)
        ELSE Result(None, "none",
                    hello \o <<P("post_ok", pr_number_),
                               P("comment_url", "html_url" \in resp.body.keys)>>,
                    issued)

----------------------------------------------------------------------------
(* get_gemini_review *)

\* what model.generate_content(prompt) followed by response.text can do:
\* raise (authentication, quota, a response without a text part) or yield text
GeminiOutcomes == {[kind |-> k, text |-> <<>>] :
                      k \in {"auth_error", "quota_error", "malformed"}}
                     \cup {[kind |-> "ok", text |-> t] : t \in Texts}

\* the prompt literal: the instructions, the fenced placeholder, the closing line.
\* The literal is a plain (not an f-) string, so the placeholder stays as written.
PromptTemplate ==
    <<"instructions", "--- diff begins ---", "<fence diff>", "{diff}", "<fence>",
      "--- diff ends ---", "start the review">>

\* prompt = """ ... {diff} ... """
BuildPrompt(diff) == PromptTemplate

\* if not diff
DiffMissing_NoneOnly(diff) == ~diff.some

DiffMissing(diff) == ~PyTruthyText(diff)

GenerateContentCall(api_key, prompt) ==
    [api |-> "gemini", model |-> "gemini-2.5-pro", key |-> api_key,
     prompt |-> prompt]

\* the result record carries, besides the usual fields, the key genai.configure
\* was given (None when it was not called)
get_gemini_review(diff, api_key, outcome) ==
    IF DiffMissing(diff)
    THEN [ret |-> None, exc |-> "none", out |-> <<P("diff_empty", "")>>,
          calls |-> <<>>, configured |-> None]
    ELSE LET issued == <<GenerateContentCall(api_key, BuildPrompt(diff.v))>>
             hello == <<P("review_start", "")>>
         IN  IF outcome.kind # "ok"
             THEN [ret |-> None, exc |-> "none",
                   out |-> hello \o <<P("gemini_failed", outcome.kind)>>,
                   calls |-> issued, configured |-> Some(api_key)]
             ELSE [ret |-> Some(outcome.text), exc |-> "none",
                   out |-> hello \o <<P("review_ok", "")>>,
                   calls |-> issued, configured |-> Some(api_key)]

----------------------------------------------------------------------------
(* main *)

EnvKeys == {"GITHUB_TOKEN", "REPO_OWNER", "REPO_NAME", "GEMINI_API_KEY"}

\* what os.getenv can return for each key: unset, set to "", set to a value
EnvValues(k) ==
    {None, Some(""),
     Some(CASE k = "GITHUB_TOKEN" -> "ghp_token"
            [] k = "REPO_OWNER" -> "owner"
            [] k = "REPO_NAME" -> "repo"
            [] OTHER -> "gemini_key")}

\* all([github_token, repo_owner, repo_name, gemini_api_key])
EnvOk_ForgetsGeminiKey(env) ==
    \A k \in EnvKeys \ {"GEMINI_API_KEY"} : PyTruthyEnv(env[k])

EnvOk(env) == \A k \in EnvKeys : PyTruthyEnv(env[k])

\* if not pr_number: ... return, else on to the diff fetch
AfterLookup_NoGate(number) == "fetch"

AfterLookup(number) == IF PyTruthyInt(number) THEN "fetch" ELSE "done"

\* if pr_diff: guards the review; otherwise main falls off its end
AfterFetch_Retry(diff) == IF PyTruthyText(diff) THEN "review" ELSE "fetch"

AfterFetch(diff) == IF PyTruthyText(diff) THEN "review" ELSE "done"

\* if review: guards the report and the post
AfterReview(text) == IF PyTruthyText(text) THEN "post" ELSE "done"

\* the fixed header "### <robot> Gemini AI Code Review\n\n---\n\n"
Header == <<"### ", "Gemini AI Code Review", "\n\n", "---", "\n\n">>

\* github_comment = f"### ... \n\n---\n\n{review}"
GithubComment_NoHeader(text) == text

GithubComment(text) == Header \o text

Called(fn, args, resp, res) ==
    [fn |-> fn, args |-> args, resp |-> resp, res |-> res]

Init ==
    /\ pc = "start"
    /\ entry = "none"
    /\ cfg \in {f \in [EnvKeys -> UNION {EnvValues(k) : k \in EnvKeys}] :
                   \A k \in EnvKeys : f[k] \in EnvValues(k)}
    /\ pr_number = None
    /\ pr_diff = None
    /\ review = None
    /\ genai_api_key = None
    /\ calls = <<>>
    /\ console = <<>>
    /\ last = [fn |-> "none"]

\* load_dotenv, the four os.getenv reads and the presence check
Main_CheckEnv ==
    /\ pc = "start"
    /\ entry' = "main"
    /\ IF EnvOk(cfg)
       THEN /\ pc' = "lookup"
            /\ console' = console
       ELSE /\ pc' = "done"
            /\ console' = console \o <<P("env_missing", "")>>
    /\ UNCHANGED <<cfg, pr_number, pr_diff, review, genai_api_key, calls, last>>

\* step 1: pr_number = get_latest_pr_number(...) and the if not pr_number return
Main_Lookup ==
    /\ pc = "lookup"
    /\ \E resp \in LookupResponses :
        LET owner == FmtEnv(cfg["REPO_OWNER"])
            repo == FmtEnv(cfg["REPO_NAME"])
            token == FmtEnv(cfg["GITHUB_TOKEN"])
            res == get_latest_pr_number(owner, repo, token, resp)
        IN  /\ last' = Called("get_latest_pr_number",
                              [owner |-> owner, repo |-> repo, token |-> token],
                              resp, res)
            /\ calls' = calls \o res.calls
            /\ IF res.exc # "none"
               THEN /\ pc' = "crashed"
                    /\ console' = console \o res.out
                    /\ UNCHANGED pr_number
               ELSE /\ pr_number' = res.ret
                    /\ pc' = AfterLookup(res.ret)
                    /\ console' = console \o res.out \o
                          (IF PyTruthyInt(res.ret)
                              THEN <<>>
                              ELSE <<P("cannot_continue", "")>>)
    /\ UNCHANGED <<entry, cfg, pr_diff, review, genai_api_key>>

\* step 2: pr_diff = get_pr_diff(...)
Main_Fetch ==
    /\ pc = "fetch"
    /\ \E resp \in DiffResponses :
        LET owner == FmtEnv(cfg["REPO_OWNER"])
            repo == FmtEnv(cfg["REPO_NAME"])
            token == FmtEnv(cfg["GITHUB_TOKEN"])
            res == get_pr_diff(owner, repo, pr_number, token, resp)
        IN  /\ last' = Called("get_pr_diff",
                              [owner |-> owner, repo |-> repo,
                               pr_number |-> pr_number, token |-> token],
                              resp, res)
            /\ calls' = calls \o res.calls
            /\ console' = console \o res.out
            /\ pr_diff' = res.ret
            /\ pc' = AfterFetch(res.ret)
    /\ UNCHANGED <<entry, cfg, pr_number, review, genai_api_key>>

\* step 3: review = get_gemini_review(pr_diff, gemini_api_key), then the report
Main_Review ==
    /\ pc = "review"
    /\ \E outcome \in GeminiOutcomes :
        LET res == get_gemini_review(pr_diff, cfg["GEMINI_API_KEY"], outcome)
        IN  /\ last' = Called("get_gemini_review",
                              [diff |-> pr_diff,
                               api_key |-> cfg["GEMINI_API_KEY"]],
                              outcome, res)
            /\ calls' = calls \o res.calls
            /\ genai_api_key' =
                  IF res.configured.some THEN res.configured.v ELSE genai_api_key
            /\ review' = res.ret
            /\ pc' = AfterReview(res.ret)
            /\ console' = console \o res.out \o
                  (IF PyTruthyText(res.ret)
                      THEN <<P("report_repository",
                               <<FmtEnv(cfg["REPO_OWNER"]),
                                 FmtEnv(cfg["REPO_NAME"])>>),
                             P("report_pull_request", pr_number),
                             P("report_review", res.ret.v)>>
                      ELSE <<>>)
    /\ UNCHANGED <<entry, cfg, pr_number, pr_diff>>

\* step 4: post_review_to_github(..., github_comment)
Main_Post ==
    /\ pc = "post"
    /\ \E resp \in PostResponses :
        LET owner == FmtEnv(cfg["REPO_OWNER"])
            repo == FmtEnv(cfg["REPO_NAME"])
            token == FmtEnv(cfg["GITHUB_TOKEN"])
            github_comment == GithubComment(review.v)
            res == post_review_to_github(owner, repo, pr_number, token,
                                         github_comment, resp)
        IN  /\ last' = Called("post_review_to_github",
                              [owner |-> owner, repo |-> repo,
                               pr_number |-> pr_number, token |-> token,
                               comment |-> github_comment],
                              resp, res)
            /\ calls' = calls \o res.calls
            /\ console' = console \o res.out
            /\ pc' = IF res.exc # "none" THEN "crashed" ELSE "done"
    /\ UNCHANGED <<entry, cfg, pr_number, pr_diff, review, genai_api_key>>

----------------------------------------------------------------------------
(* The step functions entered directly (imported and called, as a test does) *)

ArgOwner == "owner"

ArgRepo == "repo"

ArgToken == "ghp_token"

ArgApiKey == Some("gemini_key")

Returned(fn, args, resp, res) ==
    /\ entry' = fn
    /\ last' = Called(fn, args, resp, res)
    /\ calls' = calls \o res.calls
    /\ console' = console \o res.out
    /\ pc' = IF res.exc # "none" THEN "crashed" ELSE "done"

Call_get_latest_pr_number ==
    /\ pc = "start"
    /\ \E resp \in LookupResponses :
        Returned("get_latest_pr_number",
                 [owner |-> ArgOwner, repo |-> ArgRepo, token |-> ArgToken],
                 resp,
                 get_latest_pr_number(ArgOwner, ArgRepo, ArgToken, resp))
    /\ UNCHANGED <<cfg, pr_number, pr_diff, review, genai_api_key>>

Call_get_pr_diff ==
    /\ pc = "start"
    /\ \E n \in PRNumbers, resp \in DiffResponses :
        Returned("get_pr_diff",
                 [owner |-> ArgOwner, repo |-> ArgRepo,
                  pr_number |-> Some(n), token |-> ArgToken],
                 resp,
                 get_pr_diff(ArgOwner, ArgRepo, Some(n), ArgToken, resp))
    /\ UNCHANGED <<cfg, pr_number, pr_diff, review, genai_api_key>>

Call_get_gemini_review ==
    /\ pc = "start"
    /\ \E diff \in Texts, outcome \in GeminiOutcomes :
        LET res == get_gemini_review(Some(diff), ArgApiKey, outcome)
        IN  /\ Returned("get_gemini_review",
                        [diff |-> Some(diff), api_key |-> ArgApiKey],
                        outcome, res)
            /\ genai_api_key' =
                  IF res.configured.some THEN res.configured.v ELSE genai_api_key
    /\ UNCHANGED <<cfg, pr_number, pr_diff, review>>

Call_post_review_to_github ==
    /\ pc = "start"
    /\ \E n \in PRNumbers, comment \in Texts, resp \in PostResponses :
        Returned("post_review_to_github",
                 [owner |-> ArgOwner, repo |-> ArgRepo,
                  pr_number |-> Some(n), token |-> ArgToken,
                  comment |-> comment],
                 resp,
                 post_review_to_github(ArgOwner, ArgRepo, Some(n), ArgToken,
                                       comment, resp))
    /\ UNCHANGED <<cfg, pr_number, pr_diff, review, genai_api_key>>

Next ==
    \/ Main_CheckEnv
    \/ Main_Lookup
    \/ Main_Fetch
    \/ Main_Review
    \/ Main_Post
    \/ Call_get_latest_pr_number
    \/ Call_get_pr_diff
    \/ Call_get_gemini_review
    \/ Call_post_review_to_github

Spec == Init /\ [][Next]_vars

----------------------------------------------------------------------------
(* Properties *)

Is2xx(status) == status >= 200 /\ status < 300

Is4xx5xx(status) == status >= 400 /\ status < 600

Terminated == pc \in {"done", "crashed"}

MissingConfig == \E k \in EnvKeys : ~cfg[k].some \/ cfg[k].v = ""

ApiCalls(api) == {i \in 1..Len(calls) : calls[i].api = api}

GithubApis == {"list_prs", "get_diff", "post_comment"}

LogsStatusAndBody(out, resp) ==
    /\ \E i \in 1..Len(out) : out[i].msg = "status" /\ out[i].val = resp.status
    /\ \E i \in 1..Len(out) : out[i].msg = "body" /\ out[i].val = resp.body

\* C1: in a run of main in which any of GITHUB_TOKEN, REPO_OWNER, REPO_NAME,
\* GEMINI_API_KEY is unset or empty, no network call is ever issued (and genai
\* is never configured): main prints the diagnostic, and only it, and returns.
C1_NoCallWithoutConfig ==
    (entry = "main" /\ MissingConfig) =>
        /\ pc = "done"
        /\ Len(calls) = 0
        /\ ~genai_api_key.some
        /\ Len(console) = 1
        /\ console[1].msg = "env_missing"

\* C1 witness: main has returned with only GEMINI_API_KEY empty
C1_Witness ==
    /\ entry = "main"
    /\ pc = "done"
    /\ cfg["GEMINI_API_KEY"].some /\ cfg["GEMINI_API_KEY"].v = ""
    /\ \A k \in EnvKeys \ {"GEMINI_API_KEY"} : cfg[k].some /\ cfg[k].v # ""
    /\ Len(console) = 1

PipelineOrder == <<"list_prs", "get_diff", "gemini", "post_comment">>

\* C2: in a run of main the external calls made so far are always a prefix of
\* lookup, diff fetch, review generation, comment post, and the second, third
\* and fourth are issued only once the step before returned a value: after
\* an absent result no later call appears.
C2_StrictSequence ==
    entry = "main" =>
        /\ Len(calls) <= 4
        /\ \A i \in 1..Len(calls) : calls[i].api = PipelineOrder[i]
        /\ Len(calls) >= 2 => pr_number.some
        /\ Len(calls) >= 3 => pr_diff.some
        /\ Len(calls) >= 4 => review.some

\* C2 witness: review generation returned absence after lookup and fetch
\* succeeded, and main ended with three calls and no comment post
C2_Witness ==
    /\ entry = "main"
    /\ pc = "done"
    /\ Len(calls) = 3
    /\ last.fn = "get_gemini_review"
    /\ ~review.some

\* C3 as stated: after a successful diff fetch and a review generation that
\* returned a text, whatever the text, main has posted exactly one comment
\* whose body is the header followed by the text.
C3_PostsEveryReview ==
    (entry = "main" /\ Terminated /\ pr_diff.some /\ review.some) =>
        /\ Cardinality(ApiCalls("post_comment")) = 1
        /\ \A i \in ApiCalls("post_comment") :
              calls[i].body.v = Header \o review.v

\* C3 amended: after a successful diff fetch and a review generation that
\* returned a non-empty text, main has posted exactly one comment whose body
\* is the header followed by the text, verbatim; main posts no other comment.
C3_PostsNonEmptyReview ==
    entry = "main" =>
        /\ (Terminated /\ pr_diff.some /\ review.some /\ Len(review.v) > 0) =>
              Cardinality(ApiCalls("post_comment")) = 1
        /\ \A i \in ApiCalls("post_comment") :
              /\ review.some
              /\ calls[i].body.some
              /\ calls[i].body.v = Header \o review.v

\* C3 witness: main ended having posted the header followed by a two-token review
C3_Witness ==
    /\ entry = "main"
    /\ pc = "done"
    /\ review.some /\ Len(review.v) = 2
    /\ Cardinality(ApiCalls("post_comment")) = 1
    /\ calls[4].body.v = Header \o review.v

\* C4: whenever get_gemini_review submits a prompt to the model for a
\* non-empty diff, the submitted prompt contains that diff text.
C4_PromptEmbedsDiff ==
    (last.fn = "get_gemini_review" /\ Len(last.res.calls) > 0) =>
        Contains(last.res.calls[1].prompt, last.args.diff.v)

\* C5 as stated: get_latest_pr_number returns the number of the first pull
\* request of a non-empty list delivered with a 2xx status, and returns absence
\* when the list is empty, on a transport error and on every non-2xx status
\* (a call that ends in an exception yields no number either: see C8).
C5_LookupNon2xxAbsent ==
    last.fn = "get_latest_pr_number" =>
        LET resp == last.resp
            res == last.res
        IN  /\ ( /\ resp.kind = "http" /\ Is2xx(resp.status)
                 /\ resp.body.t = "array" /\ Len(resp.body.items) > 0
                 /\ resp.body.items[1].hasNumber ) =>
                   /\ res.exc = "none"
                   /\ res.ret.some
                   /\ res.ret.v = resp.body.items[1].number
            /\ ( \/ resp.kind = "neterr"
                 \/ ~Is2xx(resp.status)
                 \/ resp.body.t = "array" /\ Len(resp.body.items) = 0 ) =>
                   ~res.ret.some

\* C5 amended: get_latest_pr_number returns exactly the number of the first
\* pull request of a non-empty list whenever the request ends without a
\* transport error and without a 4xx or 5xx status, and returns absence when
\* the list is empty or the request fails (transport error, 4xx or 5xx status).
C5_LookupFirstNumber ==
    last.fn = "get_latest_pr_number" =>
        LET resp == last.resp
            res == last.res
        IN  /\ ( /\ resp.kind = "http" /\ ~Is4xx5xx(resp.status)
                 /\ resp.body.t = "array" /\ Len(resp.body.items) > 0
                 /\ resp.body.items[1].hasNumber ) =>
                   /\ res.exc = "none"
                   /\ res.ret.some
                   /\ res.ret.v = resp.body.items[1].number
            /\ ( \/ resp.kind = "neterr"
                 \/ Is4xx5xx(resp.status)
                 \/ resp.body.t = "array" /\ Len(resp.body.items) = 0 ) =>
                   /\ res.exc = "none"
                   /\ ~res.ret.some

\* C5 witness: a list of two pull requests with different numbers was
\* delivered with status 200 and the lookup returned the first one's number
C5_Witness ==
    /\ last.fn = "get_latest_pr_number"
    /\ last.resp.kind = "http" /\ last.resp.status = 200
    /\ last.resp.body.t = "array" /\ Len(last.resp.body.items) = 2
    /\ last.resp.body.items[1].hasNumber
    /\ last.resp.body.items[2].hasNumber
    /\ last.resp.body.items[1].number = 2
    /\ last.resp.body.items[2].number = 1
    /\ last.res.ret.some /\ last.res.ret.v = 2

\* C6: given an empty diff string get_gemini_review returns absence without
\* configuring genai and without invoking the model; whenever the model is
\* invoked the diff handed to get_gemini_review was non-empty, and in a run of
\* main the diff fetched was non-empty.
C6_NoReviewOfEmptyDiff ==
    /\ last.fn = "get_gemini_review" =>
          /\ (last.args.diff.some /\ Len(last.args.diff.v) = 0) =>
                /\ ~last.res.ret.some
                /\ last.res.exc = "none"
                /\ Len(last.res.calls) = 0
                /\ ~last.res.configured.some
                /\ ~genai_api_key.some
          /\ (Len(last.res.calls) > 0 \/ last.res.configured.some) =>
                (last.args.diff.some /\ Len(last.args.diff.v) > 0)
    /\ (entry = "main" /\ ApiCalls("gemini") # {}) =>
          (pr_diff.some /\ Len(pr_diff.v) > 0)

\* C6 witness: get_gemini_review was given "" and returned absence, no call made
C6_Witness ==
    /\ last.fn = "get_gemini_review"
    /\ last.args.diff.some /\ Len(last.args.diff.v) = 0
    /\ ~last.res.ret.some
    /\ Len(calls) = 0

HttpSteps == {"get_latest_pr_number", "get_pr_diff", "post_review_to_github"}

\* C7 as stated: on a non-2xx response each of get_latest_pr_number,
\* get_pr_diff and post_review_to_github returns None and prints the
\* response's status code and body.
C7_Non2xxAbsentAndLogged ==
    (last.fn \in HttpSteps /\ last.resp.kind = "http"
        /\ ~Is2xx(last.resp.status)) =>
            /\ last.res.exc = "none"
            /\ ~last.res.ret.some
            /\ LogsStatusAndBody(last.res.out, last.resp)

\* C7 amended: on a 4xx or 5xx response each of get_latest_pr_number,
\* get_pr_diff and post_review_to_github returns None and prints the
\* response's status code and body.
C7_ErrorStatusAbsentAndLogged ==
    (last.fn \in HttpSteps /\ last.resp.kind = "http"
        /\ Is4xx5xx(last.resp.status)) =>
            /\ last.res.exc = "none"
            /\ ~last.res.ret.some
            /\ LogsStatusAndBody(last.res.out, last.resp)

\* C7 witness: the comment post was answered 403; status, body and the
\* write-scope hint were printed
C7_Witness ==
    /\ last.fn = "post_review_to_github"
    /\ last.resp.kind = "http" /\ last.resp.status = 403
    /\ ~last.res.ret.some
    /\ LogsStatusAndBody(last.res.out, last.resp)
    /\ \E i \in 1..Len(last.res.out) : last.res.out[i].msg = "hint_write_scope"

\* C8: no exception leaves any of the four step functions: whatever the
\* outcome of the underlying call, the function returns normally.
C8_NoExceptionEscapes ==
    last.fn # "none" => last.res.exc = "none"

\* C9: in a run of main each of the four external calls is issued at most
\* once, whatever the calls return.
C9_NoRetry ==
    entry = "main" =>
        \A i, j \in 1..Len(calls) : i # j => calls[i].api # calls[j].api

\* C9 witness: the diff fetch failed with a transport error and main ended
\* with the lookup and that one fetch as its only calls
C9_Witness ==
    /\ entry = "main"
    /\ pc = "done"
    /\ last.fn = "get_pr_diff"
    /\ last.resp.kind = "neterr"
    /\ Len(calls) = 2

C10_SameTarget ==
    entry = "main" =>
        /\ \A i \in 1..Len(calls) :
              calls[i].api \in GithubApis =>
                  /\ cfg["REPO_OWNER"].some
                  /\ calls[i].owner = cfg["REPO_OWNER"].v
                  /\ cfg["REPO_NAME"].some
                  /\ calls[i].repo = cfg["REPO_NAME"].v
                  /\ cfg["GITHUB_TOKEN"].some
                  /\ calls[i].auth = <<"Bearer", cfg["GITHUB_TOKEN"].v>>
        /\ \A i \in ApiCalls("get_diff") \cup ApiCalls("post_comment") :
              /\ pr_number.some
              /\ calls[i].number.some
              /\ calls[i].number.v = pr_number.v
        /\ (last.fn = "get_latest_pr_number" /\ last.res.exc = "none"
               /\ last.res.ret.some) =>
              (pr_number.some /\ pr_number.v = last.res.ret.v)

\* C10: in a run of main the diff fetch and the comment post both carry
\* exactly the number the lookup returned, that number once set never changes,
\* and owner, repo and token are those of the configuration in all three
\* source-control calls.
C10_OnePullRequest ==
    /\ []C10_SameTarget
    /\ [][(entry = "main" /\ pr_number.some) => pr_number' = pr_number]_vars

\* C10 witness: main posted its comment to pull request 2, found by the lookup
C10_Witness ==
    /\ entry = "main"
    /\ pc = "done"
    /\ Len(calls) = 4
    /\ pr_number.some /\ pr_number.v = 2
    /\ calls[2].number.v = 2
    /\ calls[4].number.v = 2

=============================================================================
